---------------------------- MODULE Spec2Model ----------------------------
(***************************************************************************)
(* Sampling eviction cache (package secache) over the sampling map         *)
(* (package randmap).  Goroutines call the cache's operations; every       *)
(* operation funnels through Cache.Do, which holds c.mux around a callback *)
(* that works on the backing RandMap.  The statements of a callback are    *)
(* separate steps, so that mutual exclusion is something the model has to  *)
(* establish and not something it assumes.                                 *)
(***************************************************************************)
EXTENDS Integers, FiniteSets, Sequences, TLC

(* ------------------------------ bounds -------------------------------- *)

\* total number of cache operations the goroutines start in one run
MaxCalls == 3

\* goroutines using the cache, keys and values they pass in
Threads == {"g1", "g2"}
Keys == {"a", "b"}
InVals == {-1, 1}

\* arguments n handed to New
NArgs == {1, 3}

\* keys, and arguments n handed to New, of the program that only inserts
InsKeys == {"a", "b", "c"}
InsNArgs == {-1, 0, 1, 2, 3}

\* the zero value of V (V = int): what a Go map lookup yields for a missing key
ZeroV == 0

(* --------------------------- program constants ------------------------ *)

MinN == 2

(* ------------------------------ helpers ------------------------------- *)

Unclamped(a, b) == a
Max(a, b) == IF a >= b THEN a ELSE b

\* Go map primitives: m[k] = v, delete(m, k), v, ok := m[k]
MapPut(mp, k, v) == [x \in (DOMAIN mp) \cup {k} |-> IF x = k THEN v ELSE mp[x]]
MapDel(mp, k) == [x \in (DOMAIN mp) \ {k} |-> mp[x]]
MapHas(mp, k) == k \in DOMAIN mp
MapGet(mp, k, zero) == IF k \in DOMAIN mp THEN mp[k] ELSE zero

EmptyMap == [x \in {} |-> ZeroV]

(* ------------------------------ randmap ------------------------------- *)

\* RandMap: kv (value by key), ik (key by slot), ki (slot by key)
Make == [kv |-> EmptyMap, ik |-> EmptyMap, ki |-> EmptyMap]

RMLen(rm) == Cardinality(DOMAIN rm.kv)

RMGet(rm, key) == [value |-> MapGet(rm.kv, key, ZeroV), ok |-> MapHas(rm.kv, key)]

\* Set that stores only a key that is not there yet
RMSetIfAbsent(rm, key, item) ==
    IF MapHas(rm.kv, key) THEN rm
    ELSE [kv |-> MapPut(rm.kv, key, item),
          ik |-> MapPut(rm.ik, Cardinality(DOMAIN rm.kv), key),
          ki |-> MapPut(rm.ki, key, Cardinality(DOMAIN rm.kv))]

RMSet(rm, key, item) ==
    LET oldLen == Cardinality(DOMAIN rm.kv)
        kv2 == MapPut(rm.kv, key, item)
        newLen == Cardinality(DOMAIN kv2)
    IN  IF newLen > oldLen
        THEN [kv |-> kv2,
              ik |-> MapPut(rm.ik, newLen - 1, key),
              ki |-> MapPut(rm.ki, key, newLen - 1)]
        ELSE [rm EXCEPT !.kv = kv2]

\* Delete that takes the key's slot out without moving the last slot's key in
RMDeleteNoRelocate(rm, key) ==
    IF ~MapHas(rm.ki, key) THEN rm
    ELSE [kv |-> MapDel(rm.kv, key), ik |-> MapDel(rm.ik, rm.ki[key]),
          ki |-> MapDel(rm.ki, key)]

\* Delete that, when the key is not in the last slot, drops the value of the
\* last slot's key instead of the key's own
RMDeleteRelocated(rm, key) ==
    IF ~MapHas(rm.ki, key) THEN rm
    ELSE LET last == rm.ik[RMLen(rm) - 1]
         IN  [kv |-> MapDel(rm.kv, last),
              ik |-> MapDel(rm.ik, RMLen(rm) - 1),
              ki |-> MapDel(rm.ki, last)]

\* Delete that closes the gap by moving every later key one slot down
RMDeleteShift(rm, key) ==
    IF ~MapHas(rm.ki, key) THEN rm
    ELSE LET d == rm.ki[key]
         IN  [kv |-> MapDel(rm.kv, key),
              ik |-> [s \in 0 .. (RMLen(rm) - 2) |->
                        IF s < d THEN rm.ik[s] ELSE rm.ik[s + 1]],
              ki |-> [k \in DOMAIN rm.ki \ {key} |->
                        IF rm.ki[k] < d THEN rm.ki[k] ELSE rm.ki[k] - 1]]

RMDelete(rm, key) ==
    IF ~MapHas(rm.ki, key) THEN rm
    ELSE LET deletedIdx == rm.ki[key]
             oldLen == RMLen(rm)
             kv2 == MapDel(rm.kv, key)
             ki2 == MapDel(rm.ki, key)
         IN  IF deletedIdx = oldLen - 1
             THEN [kv |-> kv2, ik |-> MapDel(rm.ik, deletedIdx), ki |-> ki2]
             ELSE LET relocatedKey == rm.ik[oldLen - 1]
                  IN  [kv |-> kv2,
                       ik |-> MapDel(MapPut(rm.ik, deletedIdx, relocatedKey), oldLen - 1),
                       ki |-> MapPut(ki2, relocatedKey, deletedIdx)]

\* Wrap(m): the map m becomes kv, and the loop for k := range m numbers the keys
\* in the order the range yields them, which Go leaves open: order is that order
RECURSIVE WrapLoop(_, _, _)
WrapLoop(rm, order, j) ==
    IF j > Len(order) THEN rm
    ELSE WrapLoop([kv |-> rm.kv,
                   ik |-> MapPut(rm.ik, j - 1, order[j]),
                   ki |-> MapPut(rm.ki, order[j], j - 1)], order, j + 1)

Wrap(m, order) == WrapLoop([kv |-> m, ik |-> EmptyMap, ki |-> EmptyMap], order, 1)

\* the draws rand.IntN(l) can make: every slot in [0, l)
RandIntNThroughL(l) == 0 .. l
RandIntN(l) == 0 .. (l - 1)

\* GetRandom with draw r: the entry whose key sits in slot r.  It yields the
\* key as well, which Cache.SetLocked uses (ck, cv, ok := m.GetRandom()); the
\* map-only RandMap, which returns the first entry of a range over kv, can
\* yield the same entries: any one that is present.
\* GetRandom that returns the entry of slot 0 whatever the draw
RMGetRandomFirst(rm, r) ==
    IF RMLen(rm) = 0
    THEN [key |-> "", value |-> ZeroV, ok |-> FALSE]
    ELSE LET k == MapGet(rm.ik, 0, "")
         IN  [key |-> k, value |-> MapGet(rm.kv, k, ZeroV), ok |-> MapHas(rm.kv, k)]

RMGetRandom(rm, r) ==
    IF RMLen(rm) = 0
    THEN [key |-> "", value |-> ZeroV, ok |-> FALSE]
    ELSE LET k == MapGet(rm.ik, r, "")
         IN  [key |-> k, value |-> MapGet(rm.kv, k, ZeroV), ok |-> MapHas(rm.kv, k)]

(* ------------------------------- cache -------------------------------- *)

\* the validity functions the callers pass to New
ValidityFuncs == {"always", "positive"}

\* c.f(key, value)
Valid(fn, key, value) == IF fn = "always" THEN TRUE ELSE value > 0

\* the programs that use the cache: goroutines making any calls; the goroutines
\* of TestConcurrent, each setting its own key once; goroutines that all run
\* the increment callback of ExampleCache_Do on one key
Clients == {"mixed", "TestConcurrent", "ExampleDo", "SameKey"}

\* "SameKey": goroutines that each call GetOrCreate once, all for one key, each
\* with a factory of its own
SharedKey == "a"

\* the program that only inserts, as TestEviction does with Set: its goroutines
\* call Set and GetOrCreate
Inserting == "TestEviction"

\* TestConcurrent: go func(i int) { c.Set(i, i*10) }(i)
OwnKey(t) == IF t = "g1" THEN "a" ELSE "b"
OwnVal(t) == IF t = "g1" THEN 1 ELSE -1

\* ExampleCache_Do: incrKey
IncrKey == "a"

VARIABLES
    heap,       \* the RandMap objects in use, by reference
    cm,         \* c.m: reference to the backing RandMap
    mux,        \* c.mux: TRUE while locked
    f,          \* c.f
    n,          \* c.n
    nArg,       \* history: the argument n that New was called with
    log,        \* history: the Set and Delete calls made on a RandMap used on its own
    client,     \* the program that uses the cache
    pc,         \* per goroutine: where it stands
    op,         \* per goroutine: the operation it is in
    key,        \* per goroutine: argument key
    val,        \* per goroutine: argument value (Set), or what newValFunc returns
    mref,       \* per goroutine: the parameter m of its callback (a reference)
    value,      \* per goroutine: result variable value (l in Len, old in the increment)
    ok,         \* per goroutine: result variable ok
    i,          \* per goroutine: eviction loop counter
    called,     \* per goroutine: invocations of newValFunc in the current call
    evals,      \* per goroutine: invocations of c.f in the current call
    depth,      \* per goroutine: 1 inside a cache call made from a Do callback
    panicking,  \* per goroutine: its callback panicked, the stack is unwinding
    panicked,   \* history: some callback has panicked
    snap,       \* history: the backing map as it was when the lock was last acquired
    written,    \* history: the <<key, value>> pairs stored since the last Flush
    calls       \* operations started so far

vars == <<heap, cm, mux, f, n, nArg, log, client, pc, op, key, val, mref, value, ok, i, called,
          evals, depth, panicking, panicked, snap, written, calls>>

NoKey == ""
NoRef == -1

\* references a RandMap can have: one per callback parameter and one for c.m
Refs == 0 .. Cardinality(Threads)

\* the references held by callback parameters, given the parameters
Live(mrefs) == {mrefs[t] : t \in Threads} \ {NoRef}

\* a reference no callback holds: what a fresh allocation yields
FreshRef(mrefs) == CHOOSE r \in Refs \ Live(mrefs) : \A q \in Refs \ Live(mrefs) : r <= q

\* the heap without the objects nothing refers to any more
Collect(hp, c, mrefs) == [r \in (Live(mrefs) \cup {c}) \cap DOMAIN hp |-> hp[r]]

\* the map of goroutine t's callback, and the cache's backing map
M(t) == heap[mref[t]]
CurMap == heap[cm]

\* operations that take no key, a key, a key and a value
NullaryOps == {"Len", "Flush", "DoPanic", "DoNested"}
KeyOps == {"Get", "GetValidOrDelete", "DoIncr"}
KeyValOps == {"Set", "GetOrCreate", "DoSet"}

\* the calls a goroutine can make: operation, key, value
CallArgs ==
    [op : NullaryOps, key : {NoKey}, val : {ZeroV}]
    \cup [op : KeyOps, key : Keys, val : {ZeroV}]
    \cup [op : KeyValOps, key : Keys, val : InVals]

\* the calls goroutine t makes under each client program
ClientCalls(cl, t) ==
    CASE cl = "mixed" -> CallArgs
      [] cl = "TestConcurrent" -> {[op |-> "Set", key |-> OwnKey(t), val |-> OwnVal(t)]}
      [] cl = "ExampleDo" -> {[op |-> "DoIncr", key |-> IncrKey, val |-> ZeroV]}
      [] cl = "SameKey" -> [op : {"GetOrCreate"}, key : {SharedKey}, val : InVals]
      [] cl = "NoReentry" ->
            {c \in CallArgs : c.op # "DoNested" /\ c.key \in {NoKey, SharedKey}}
      [] cl = Inserting -> [op : {"Set", "GetOrCreate"}, key : InsKeys, val : InVals]

\* TestConcurrent's goroutines end after their one call, the others go on
OneShot(cl) == cl \in {"TestConcurrent", "SameKey"}

\* the locking cache operations a Do callback could call on its own cache
NestedArgs ==
    {c \in CallArgs : c.op # "DoNested" /\ c.key \in {NoKey, "a"} /\ c.val \in {ZeroV, 1}}

\* the callback Get hands to Do: the lookup alone, value, ok = m.Get(key), and not
\* the lookup followed by the validity check that GetValidOrDelete hands over
CheckedLookup == "gvod_get"
RawLookup == "get"

\* first statement of the callback each operation hands to Do (Flush: its own body)
Entry(o) ==
    CASE o = "Len" -> "len"
      [] o = "Get" -> RawLookup
      [] o = "GetValidOrDelete" -> "gvod_get"
      [] o = "GetOrCreate" -> "goc_get"
      [] o = "Set" -> "set"
      [] o = "Flush" -> "flush"
      [] o = "DoIncr" -> "incr_get"
      [] o = "DoSet" -> "do_set"
      [] o = "DoPanic" -> "cb_panic"
      [] o = "DoNested" -> "cb_nested"

\* positions between c.mux.Lock() and the deferred c.mux.Unlock()
CritPCs == {"len", "get", "gvod_get", "gvod_check", "goc_get", "goc_create", "set",
            "evict", "flush", "incr_get", "incr_set", "do_set", "cb_panic",
            "cb_nested", "unlock"}

\* sync.Mutex.Lock proceeds only when the mutex is not locked, whoever holds it
ReentrantLock(locked) == TRUE
MutexLockable(locked) == ~locked

\* state of the mutex after Do or Flush exits; the Unlock is deferred, so it
\* runs on a normal return and on a panic alike
UnlockOnReturnOnly(isPanicking) == isPanicking
DeferredUnlock(isPanicking) == FALSE

\* the map Flush installs
KeepMap(old) == old
FlushedMap(old) == Make

\* SetLocked runs the eviction attempts only if the map grew
AlwaysEvict(oldLen, newLen) == TRUE
NewElementAdded(oldLen, newLen) == newLen > oldLen

\* the eviction loop deletes a sampled element if it is not valid
DeleteSampled(valid) == TRUE
ShouldDelete(valid) == ~valid

\* GetOrCreate creates a value if the key is missing or its value is not valid
CreateIfMissing(found, valid) == ~found
NeedsCreate(found, valid) == ~found \/ ~valid

\* how GetOrCreate stores the value it created: c.SetLocked(m, key, value), and
\* not the map's own m.Set(key, value)
StoreDirect == "do_set"
StoreLocked == "set"

\* the eviction loop's condition: for i := 0; i < c.n; i++
LoopThroughN(j, nn) == j <= nn
LoopCond(j, nn) == j < nn

\* New(n, f) for a program among cls and an argument n among args, and the
\* program's goroutines before their first call
NewCache(cls, args) ==
    /\ cm = 0
    /\ heap = [r \in {0} |-> Make]
    /\ mux = FALSE
    /\ client \in cls
    /\ f \in CASE client = "TestConcurrent" -> {"always"}
               [] client = "NoReentry" -> {"positive"}
               [] OTHER -> ValidityFuncs
    /\ nArg \in args
    /\ n = Max(nArg, MinN)
    /\ log = <<>>
    /\ pc = [t \in Threads |-> "idle"]
    /\ op = [t \in Threads |-> ""]
    /\ key = [t \in Threads |-> NoKey]
    /\ val = [t \in Threads |-> ZeroV]
    /\ mref = [t \in Threads |-> NoRef]
    /\ value = [t \in Threads |-> ZeroV]
    /\ ok = [t \in Threads |-> FALSE]
    /\ i = [t \in Threads |-> 0]
    /\ called = [t \in Threads |-> 0]
    /\ evals = [t \in Threads |-> 0]
    /\ depth = [t \in Threads |-> 0]
    /\ panicking = [t \in Threads |-> FALSE]
    /\ panicked = FALSE
    /\ snap = Make
    /\ written = {}
    /\ calls = 0

Init == NewCache(Clients, NArgs)

\* a goroutine calls a cache operation and arrives at c.mux.Lock()
Call(t) ==
    /\ pc[t] = "idle"
    /\ calls < MaxCalls
    /\ \E c \in ClientCalls(client, t) :
        /\ op' = [op EXCEPT ![t] = c.op]
        /\ key' = [key EXCEPT ![t] = c.key]
        /\ val' = [val EXCEPT ![t] = c.val]
    /\ pc' = [pc EXCEPT ![t] = "lock"]
    /\ calls' = calls + 1
    /\ UNCHANGED <<heap, cm, mux, f, n, nArg, log, client, mref, value, ok, i, called, evals,
                   depth, panicking, panicked, snap, written>>

\* c.mux.Lock() in Do and in Flush; Do then calls f(c.m)
Lock(t) ==
    /\ pc[t] = "lock"
    /\ MutexLockable(mux)
    /\ mux' = TRUE
    /\ mref' = [mref EXCEPT ![t] = IF op[t] = "Flush" THEN NoRef ELSE cm]
    /\ pc' = [pc EXCEPT ![t] = Entry(op[t])]
    /\ snap' = CurMap
    /\ UNCHANGED <<heap, cm, f, n, nArg, log, client, op, key, val, value, ok, i, called,
                   evals, depth, panicking, panicked, written, calls>>

\* Flush: c.m = randmap.Make()
Flush(t) ==
    LET r == FreshRef(mref)
    IN  /\ pc[t] = "flush"
        /\ cm' = r
        /\ heap' = Collect([x \in DOMAIN heap \cup {r} |->
                              IF x = r THEN FlushedMap(CurMap) ELSE heap[x]], r, mref)
        /\ written' = {}
        /\ pc' = [pc EXCEPT ![t] = "unlock"]
        /\ UNCHANGED <<mux, f, n, nArg, log, client, op, key, val, mref, value, ok, i, called,
                       evals, depth, panicking, panicked, snap, calls>>

\* Len's callback: l = m.Len()
Len_(t) ==
    /\ pc[t] = "len"
    /\ value' = [value EXCEPT ![t] = RMLen(M(t))]
    /\ pc' = [pc EXCEPT ![t] = "unlock"]
    /\ UNCHANGED <<heap, cm, mux, f, n, nArg, log, client, op, key, val, mref, ok, i, called,
                   evals, depth, panicking, panicked, snap, written, calls>>

\* Get's callback: value, ok = m.Get(key)
Get(t) ==
    /\ pc[t] = "get"
    /\ value' = [value EXCEPT ![t] = RMGet(M(t), key[t]).value]
    /\ ok' = [ok EXCEPT ![t] = RMGet(M(t), key[t]).ok]
    /\ pc' = [pc EXCEPT ![t] = "unlock"]
    /\ UNCHANGED <<heap, cm, mux, f, n, nArg, log, client, op, key, val, mref, i, called,
                   evals, depth, panicking, panicked, snap, written, calls>>

\* GetValidOrDelete's callback, the lookup: value, ok = m.Get(key); if !ok return
GetValidOrDeleteGet(t) ==
    /\ pc[t] = "gvod_get"
    /\ value' = [value EXCEPT ![t] = RMGet(M(t), key[t]).value]
    /\ ok' = [ok EXCEPT ![t] = RMGet(M(t), key[t]).ok]
    /\ pc' = [pc EXCEPT ![t] = IF RMGet(M(t), key[t]).ok THEN "gvod_check" ELSE "unlock"]
    /\ UNCHANGED <<heap, cm, mux, f, n, nArg, log, client, op, key, val, mref, i, called,
                   evals, depth, panicking, panicked, snap, written, calls>>

\* GetValidOrDelete's callback, the check: if !c.f(key, value) { ok = false; m.Delete(key) }
GetValidOrDeleteCheck(t) ==
    /\ pc[t] = "gvod_check"
    /\ evals' = [evals EXCEPT ![t] = @ + 1]
    /\ IF ~Valid(f, key[t], value[t])
       THEN /\ ok' = [ok EXCEPT ![t] = FALSE]
            /\ heap' = [heap EXCEPT ![mref[t]] = RMDelete(@, key[t])]
       ELSE UNCHANGED <<ok, heap>>
    /\ pc' = [pc EXCEPT ![t] = "unlock"]
    /\ UNCHANGED <<cm, mux, f, n, nArg, log, client, op, key, val, mref, value, i, called,
                   depth, panicking, panicked, snap, written, calls>>

\* GetOrCreate's callback, the lookup: value, ok = m.Get(key); if !ok || !c.f(key, value)
GetOrCreateGet(t) ==
    LET g == RMGet(M(t), key[t])
    IN  /\ pc[t] = "goc_get"
        /\ value' = [value EXCEPT ![t] = g.value]
        /\ ok' = [ok EXCEPT ![t] = g.ok]
        /\ evals' = [evals EXCEPT ![t] = IF g.ok THEN @ + 1 ELSE @]
        /\ pc' = [pc EXCEPT ![t] =
                    IF NeedsCreate(g.ok, g.ok /\ Valid(f, key[t], g.value))
                    THEN "goc_create" ELSE "unlock"]
        /\ UNCHANGED <<heap, cm, mux, f, n, nArg, log, client, op, key, val, mref, i, called,
                       depth, panicking, panicked, snap, written, calls>>

\* GetOrCreate's callback, the creation: value = newValFunc(), then SetLocked
GetOrCreateCreate(t) ==
    /\ pc[t] = "goc_create"
    /\ value' = [value EXCEPT ![t] = val[t]]
    /\ called' = [called EXCEPT ![t] = @ + 1]
    /\ pc' = [pc EXCEPT ![t] = StoreLocked]
    /\ UNCHANGED <<heap, cm, mux, f, n, nArg, log, client, op, key, val, mref, ok, i, evals,
                   depth, panicking, panicked, snap, written, calls>>

\* the value SetLocked is handed: Set's argument, GetOrCreate's created value
SetArg(t) == IF op[t] = "GetOrCreate" THEN value[t] ELSE val[t]

\* SetLocked up to the loop: oldLen := m.Len(); m.Set(key, value); if newLen > oldLen
SetLockedSet(t) ==
    LET oldLen == RMLen(M(t))
        m2 == RMSet(M(t), key[t], SetArg(t))
    IN  /\ pc[t] = "set"
        /\ heap' = [heap EXCEPT ![mref[t]] = m2]
        /\ written' = written \cup {<<key[t], SetArg(t)>>}
        /\ i' = [i EXCEPT ![t] = 0]
        /\ pc' = [pc EXCEPT ![t] =
                    IF NewElementAdded(oldLen, RMLen(m2)) /\ LoopCond(0, n)
                    THEN "evict" ELSE "unlock"]
        /\ UNCHANGED <<cm, mux, f, n, nArg, log, client, op, key, val, mref, value, ok, called,
                       evals, depth, panicking, panicked, snap, calls>>

\* one iteration of SetLocked's loop: for i := 0; i < c.n; i++ { GetRandom ... }
SetLockedEvict(t) ==
    /\ pc[t] = "evict"
    /\ IF RMLen(M(t)) = 0
       THEN \* !ok: cache is empty, break
            /\ pc' = [pc EXCEPT ![t] = "unlock"]
            /\ UNCHANGED <<heap, i, evals>>
       ELSE \E r \in RandIntN(RMLen(M(t))) :
              LET g == RMGetRandom(M(t), r)
              IN  /\ evals' = [evals EXCEPT ![t] = @ + 1]
                  /\ heap' = [heap EXCEPT ![mref[t]] =
                                IF ShouldDelete(Valid(f, g.key, g.value))
                                THEN RMDelete(@, g.key) ELSE @]
                  /\ i' = [i EXCEPT ![t] = @ + 1]
                  /\ pc' = [pc EXCEPT ![t] =
                              IF LoopCond(i[t] + 1, n) THEN "evict" ELSE "unlock"]
    /\ UNCHANGED <<cm, mux, f, n, nArg, log, client, op, key, val, mref, value, ok, called,
                   depth, panicking, panicked, snap, written, calls>>

\* the increment callback, first statement: old, _ := m.Get(incrKey)
IncrGet(t) ==
    /\ pc[t] = "incr_get"
    /\ value' = [value EXCEPT ![t] = RMGet(M(t), key[t]).value]
    /\ pc' = [pc EXCEPT ![t] = "incr_set"]
    /\ UNCHANGED <<heap, cm, mux, f, n, nArg, log, client, op, key, val, mref, ok, i, called,
                   evals, depth, panicking, panicked, snap, written, calls>>

\* the increment callback, second statement: m.Set(incrKey, old+1)
IncrSet(t) ==
    /\ pc[t] = "incr_set"
    /\ heap' = [heap EXCEPT ![mref[t]] = RMSet(@, key[t], value[t] + 1)]
    /\ written' = written \cup {<<key[t], value[t] + 1>>}
    /\ pc' = [pc EXCEPT ![t] = "unlock"]
    /\ UNCHANGED <<cm, mux, f, n, nArg, log, client, op, key, val, mref, value, ok, i, called,
                   evals, depth, panicking, panicked, snap, calls>>

\* a callback that writes the map directly: m.Set(key, value)
DoSet(t) ==
    /\ pc[t] = "do_set"
    /\ heap' = [heap EXCEPT ![mref[t]] = RMSet(@, key[t], val[t])]
    /\ written' = written \cup {<<key[t], val[t]>>}
    /\ pc' = [pc EXCEPT ![t] = "unlock"]
    /\ UNCHANGED <<cm, mux, f, n, nArg, log, client, op, key, val, mref, value, ok, i, called,
                   evals, depth, panicking, panicked, snap, calls>>

\* a callback that panics: the deferred Unlock runs while the stack unwinds
CbPanic(t) ==
    /\ pc[t] = "cb_panic"
    /\ panicking' = [panicking EXCEPT ![t] = TRUE]
    /\ panicked' = TRUE
    /\ pc' = [pc EXCEPT ![t] = "unlock"]
    /\ UNCHANGED <<heap, cm, mux, f, n, nArg, log, client, op, key, val, mref, value, ok, i,
                   called, evals, depth, snap, written, calls>>

\* a callback that calls a locking operation of the cache it runs in
CbNested(t) ==
    /\ pc[t] = "cb_nested"
    /\ \E c \in NestedArgs :
        /\ op' = [op EXCEPT ![t] = c.op]
        /\ key' = [key EXCEPT ![t] = c.key]
        /\ val' = [val EXCEPT ![t] = c.val]
    /\ depth' = [depth EXCEPT ![t] = 1]
    /\ pc' = [pc EXCEPT ![t] = "lock"]
    /\ UNCHANGED <<heap, cm, mux, f, n, nArg, log, client, mref, value, ok, i, called, evals,
                   panicking, panicked, snap, written, calls>>

\* defer c.mux.Unlock() and the return to the caller, who recovers a panic; the
\* callback's parameter m goes out of scope
Unlock(t) ==
    LET mrefs == [mref EXCEPT ![t] = NoRef]
    IN  /\ pc[t] = "unlock"
        /\ mux' = DeferredUnlock(panicking[t])
        /\ mref' = mrefs
        /\ heap' = Collect(heap, cm, mrefs)
        /\ IF depth[t] = 1
           THEN \* back in the outer callback, which returns next
                /\ depth' = [depth EXCEPT ![t] = 0]
                /\ UNCHANGED <<pc, op, key, val, value, ok, i, called, evals, panicking>>
           ELSE IF OneShot(client)
           THEN \* the goroutine ends with its results
                /\ pc' = [pc EXCEPT ![t] = "done"]
                /\ UNCHANGED <<op, key, val, value, ok, i, called, evals, panicking, depth>>
           ELSE /\ pc' = [pc EXCEPT ![t] = "idle"]
                /\ op' = [op EXCEPT ![t] = ""]
                /\ key' = [key EXCEPT ![t] = NoKey]
                /\ val' = [val EXCEPT ![t] = ZeroV]
                /\ value' = [value EXCEPT ![t] = ZeroV]
                /\ ok' = [ok EXCEPT ![t] = FALSE]
                /\ i' = [i EXCEPT ![t] = 0]
                /\ called' = [called EXCEPT ![t] = 0]
                /\ evals' = [evals EXCEPT ![t] = 0]
                /\ panicking' = [panicking EXCEPT ![t] = FALSE]
                /\ UNCHANGED depth
        /\ UNCHANGED <<cm, f, n, nArg, log, client, panicked, snap, written, calls>>

Next ==
    \E t \in Threads :
        \/ Call(t)
        \/ Lock(t)
        \/ Flush(t)
        \/ Len_(t)
        \/ Get(t)
        \/ GetValidOrDeleteGet(t)
        \/ GetValidOrDeleteCheck(t)
        \/ GetOrCreateGet(t)
        \/ GetOrCreateCreate(t)
        \/ SetLockedSet(t)
        \/ SetLockedEvict(t)
        \/ IncrGet(t)
        \/ IncrSet(t)
        \/ DoSet(t)
        \/ CbPanic(t)
        \/ CbNested(t)
        \/ Unlock(t)

Spec == Init /\ [][Next]_vars

\* the program that only inserts: New with any argument n, then Set and
\* GetOrCreate from every goroutine
InitInsert == NewCache({Inserting}, InsNArgs)

NextInsert ==
    \E t \in Threads :
        \/ Call(t)
        \/ Lock(t)
        \/ GetOrCreateGet(t)
        \/ GetOrCreateCreate(t)
        \/ SetLockedSet(t)
        \/ SetLockedEvict(t)
        \/ Unlock(t)

SpecInsert == InitInsert /\ [][NextInsert]_vars

\* the types of the state
TypeOK ==
    /\ mux \in BOOLEAN
    /\ f \in ValidityFuncs
    /\ n >= MinN
    /\ cm \in DOMAIN heap
    /\ DOMAIN CurMap.kv \subseteq Keys \cup InsKeys
    /\ calls \in 0 .. MaxCalls


\* the program whose callbacks never call back into the cache: any calls but
\* the nested one, under fair scheduling.  A goroutine inside Do or Flush keeps
\* running (weak fairness on its steps); a goroutine blocked in c.mux.Lock()
\* gets the mutex in the end although others lock and unlock meanwhile, as
\* sync.Mutex hands the mutex to a starving waiter (strong fairness on Lock).
\* Nothing obliges a goroutine to make a call.  The calls are on one key, under
\* the predicate that tells the stored values apart, so that valid and invalid
\* entries both occur.
InitLive == NewCache({"NoReentry"}, NArgs)

Run(t) ==
    \/ Flush(t)
    \/ Len_(t)
    \/ Get(t)
    \/ GetValidOrDeleteGet(t)
    \/ GetValidOrDeleteCheck(t)
    \/ GetOrCreateGet(t)
    \/ GetOrCreateCreate(t)
    \/ SetLockedSet(t)
    \/ SetLockedEvict(t)
    \/ IncrGet(t)
    \/ IncrSet(t)
    \/ DoSet(t)
    \/ CbPanic(t)
    \/ Unlock(t)

NextLive == \E t \in Threads : Call(t) \/ Lock(t) \/ Run(t)

Fairness == \A t \in Threads : WF_vars(Run(t)) /\ SF_vars(Lock(t))

SpecLive == InitLive /\ [][NextLive]_vars /\ Fairness

(* ---------------------- the RandMap used on its own -------------------- *)

\* Set and Delete calls a run makes on the map
MaxOps == 3

\* keys of the maps, and the program that uses a RandMap directly (the tests of
\* package randmap): one goroutine, no cache operation
RMKeys == {"a", "b", "c"}
RandMapTest == "randmap_test"
Tester == "g1"

\* the Go maps handed to Wrap (every key set, one value), and the orders a
\* range over a map can take
WrapVals == {1}
GoMaps == UNION {[ks -> WrapVals] : ks \in SUBSET RMKeys}
RangeOrders(m) ==
    {o \in [1 .. Cardinality(DOMAIN m) -> DOMAIN m] :
        \A k \in DOMAIN m : \E j \in DOMAIN o : o[j] = k}

\* m := Make(), or m := Wrap(orig) for a Go map orig
InitRandMap ==
    /\ cm = 0
    /\ \E orig \in GoMaps : \E order \in RangeOrders(orig) :
          /\ heap = [r \in {0} |-> IF orig = EmptyMap THEN Make ELSE Wrap(orig, order)]
          /\ snap = heap[0]
          /\ written = {<<k, orig[k]>> : k \in DOMAIN orig}
    /\ log = <<>>
    /\ mux = FALSE
    /\ client = RandMapTest
    /\ f = "always"
    /\ nArg = MinN
    /\ n = MinN
    /\ pc = [t \in Threads |-> "idle"]
    /\ op = [t \in Threads |-> ""]
    /\ key = [t \in Threads |-> NoKey]
    /\ val = [t \in Threads |-> ZeroV]
    /\ mref = [t \in Threads |-> NoRef]
    /\ value = [t \in Threads |-> ZeroV]
    /\ ok = [t \in Threads |-> FALSE]
    /\ i = [t \in Threads |-> 0]
    /\ called = [t \in Threads |-> 0]
    /\ evals = [t \in Threads |-> 0]
    /\ depth = [t \in Threads |-> 0]
    /\ panicking = [t \in Threads |-> FALSE]
    /\ panicked = FALSE
    /\ calls = 0

\* the tester's call o(k, v) leaves the map m2 and returns rk, rv, rok; snap keeps
\* the map as it was before the call, i the slot drawn
Called(o, k, v, m2, rk, rv, rok, r) ==
    /\ heap' = [heap EXCEPT ![cm] = m2]
    /\ snap' = CurMap
    /\ op' = [op EXCEPT ![Tester] = o]
    /\ key' = [key EXCEPT ![Tester] = IF o = "GetRandom" THEN rk ELSE k]
    /\ val' = [val EXCEPT ![Tester] = v]
    /\ value' = [value EXCEPT ![Tester] = rv]
    /\ ok' = [ok EXCEPT ![Tester] = rok]
    /\ i' = [i EXCEPT ![Tester] = r]
    /\ UNCHANGED <<cm, mux, f, n, nArg, client, pc, mref, called, evals, depth,
                   panicking, panicked, calls>>

\* m.Set(k, v)
RandMapSet ==
    /\ Len(log) < MaxOps
    /\ \E k \in RMKeys, v \in InVals :
          /\ Called("Set", k, v, RMSet(CurMap, k, v), NoKey, ZeroV, FALSE, 0)
          /\ log' = Append(log, [op |-> "Set", key |-> k, val |-> v])
          /\ written' = written \cup {<<k, v>>}

\* m.Delete(k)
RandMapDelete ==
    /\ Len(log) < MaxOps
    /\ \E k \in RMKeys :
          /\ Called("Delete", k, ZeroV, RMDelete(CurMap, k), NoKey, ZeroV, FALSE, 0)
          /\ log' = Append(log, [op |-> "Delete", key |-> k, val |-> ZeroV])
          /\ UNCHANGED written

\* val, ok := m.Get(k)
RandMapGet ==
    \E k \in RMKeys :
        /\ Called("Get", k, ZeroV, CurMap, NoKey, RMGet(CurMap, k).value,
                  RMGet(CurMap, k).ok, 0)
        /\ UNCHANGED <<log, written>>

\* val, ok := m.GetRandom()
RandMapGetRandom ==
    /\ IF RMLen(CurMap) = 0
       THEN Called("GetRandom", NoKey, ZeroV, CurMap, NoKey, ZeroV, FALSE, 0)
       ELSE \E r \in RandIntN(RMLen(CurMap)) :
              LET g == RMGetRandom(CurMap, r)
              IN  Called("GetRandom", NoKey, ZeroV, CurMap, g.key, g.value, g.ok, r)
    /\ UNCHANGED <<log, written>>

NextRandMap ==
    \/ RandMapSet
    \/ RandMapDelete
    \/ RandMapGet
    \/ RandMapGetRandom

SpecRandMap == InitRandMap /\ [][NextRandMap]_vars

(* ------------------- the operations as single steps -------------------- *)

\* a goroutine is between Lock and Unlock (a nested call counts: its caller is)
InCrit(t) == pc[t] \in CritPCs \/ depth[t] = 1

\* goroutine t has run its callback (or Flush's body) to the end and still
\* holds the lock: the moment its operation completes
Completes(t, o) == pc[t] = "unlock" /\ depth[t] = 0 /\ op[t] = o

RECURSIVE EvictOutcomes(_, _, _)
\* the maps that j eviction attempts on rm can leave
EvictOutcomes(rm, fn, j) ==
    IF j = 0 \/ RMLen(rm) = 0 THEN {rm}
    ELSE UNION {EvictOutcomes(
                   IF Valid(fn, RMGetRandom(rm, r).key, RMGetRandom(rm, r).value)
                   THEN rm ELSE RMDelete(rm, RMGetRandom(rm, r).key), fn, j - 1)
                : r \in RandIntN(RMLen(rm))}

\* the maps SetLocked(rm, k, v), run alone, can leave
SetLockedOutcomes(rm, fn, nn, k, v) ==
    IF RMLen(RMSet(rm, k, v)) > RMLen(rm)
    THEN EvictOutcomes(RMSet(rm, k, v), fn, nn)
    ELSE {RMSet(rm, k, v)}

\* what operation o with arguments k, v, run alone on map rm, can leave: the
\* map and the result variables
AtomicOutcomes(o, k, v, rm, fn, nn) ==
    LET g == RMGet(rm, k)
    IN  CASE o = "Len" -> {[m |-> rm, value |-> RMLen(rm), ok |-> FALSE, called |-> 0]}
          [] o = "Get" -> {[m |-> rm, value |-> g.value, ok |-> g.ok, called |-> 0]}
          [] o = "GetValidOrDelete" ->
                IF g.ok /\ ~Valid(fn, k, g.value)
                THEN {[m |-> RMDelete(rm, k), value |-> g.value, ok |-> FALSE, called |-> 0]}
                ELSE {[m |-> rm, value |-> g.value, ok |-> g.ok, called |-> 0]}
          [] o = "GetOrCreate" ->
                IF g.ok /\ Valid(fn, k, g.value)
                THEN {[m |-> rm, value |-> g.value, ok |-> TRUE, called |-> 0]}
                ELSE {[m |-> x, value |-> v, ok |-> g.ok, called |-> 1] :
                        x \in SetLockedOutcomes(rm, fn, nn, k, v)}
          [] o = "Set" ->
                {[m |-> x, value |-> ZeroV, ok |-> FALSE, called |-> 0] :
                    x \in SetLockedOutcomes(rm, fn, nn, k, v)}
          [] o = "Flush" -> {[m |-> Make, value |-> ZeroV, ok |-> FALSE, called |-> 0]}
          [] o = "DoIncr" ->
                {[m |-> RMSet(rm, k, g.value + 1), value |-> g.value, ok |-> FALSE,
                  called |-> 0]}
          [] o = "DoSet" ->
                {[m |-> RMSet(rm, k, v), value |-> ZeroV, ok |-> FALSE, called |-> 0]}
          [] o = "DoPanic" -> {[m |-> rm, value |-> ZeroV, ok |-> FALSE, called |-> 0]}
          [] OTHER -> {}

(* ------------------------------ claims -------------------------------- *)

\* some entry of map rm fails the validity function fn
HasInvalid(rm, fn) == \E k \in DOMAIN rm.kv : ~Valid(fn, k, rm.kv[k])

\* C1: Set on a key that is already present (valid or not) only overwrites the
\* key's value: when it completes it has made no draw and evaluated no
\* predicate, and the map is the map it found with that one value replaced
\* (same keys, same slots, every other value as before).  SetLocked reaches its
\* eviction loop only after storing a key that was absent.
C1_SetExistingOnlyOverwrites ==
    \A t \in Threads :
        /\ (Completes(t, "Set") /\ key[t] \in DOMAIN snap.kv) =>
              /\ i[t] = 0
              /\ evals[t] = 0
              /\ CurMap = [snap EXCEPT !.kv[key[t]] = val[t]]
        /\ (pc[t] = "evict" /\ depth[t] = 0) => key[t] \notin DOMAIN snap.kv

\* C1 witness: a Set of a present key completes on a map that held an invalid entry
C1_Witness ==
    \E t \in Threads :
        /\ Completes(t, "Set")
        /\ key[t] \in DOMAIN snap.kv
        /\ HasInvalid(snap, f)
        /\ snap.kv[key[t]] # val[t]

\* C2: GetValidOrDelete is one step under the lock.  When it completes: an
\* absent key is reported not found and nothing changed; a present key whose
\* value fails the predicate is reported not found and is gone from the map,
\* so that a lookup reports not found; a present valid key is returned with
\* found = true and nothing changed.  Between its validity check and the
\* removal no other goroutine is inside the lock and the map is as it found it.
C2_GetValidOrDeleteAtomic ==
    \A t \in Threads :
        /\ Completes(t, "GetValidOrDelete") =>
              LET g == RMGet(snap, key[t])
              IN  /\ ~g.ok => (~ok[t] /\ CurMap = snap)
                  /\ (g.ok /\ ~Valid(f, key[t], g.value)) =>
                        /\ ~ok[t]
                        /\ ~RMGet(CurMap, key[t]).ok
                        /\ CurMap = RMDelete(snap, key[t])
                  /\ (g.ok /\ Valid(f, key[t], g.value)) =>
                        (ok[t] /\ value[t] = g.value /\ CurMap = snap)
        /\ (pc[t] = "gvod_check" /\ depth[t] = 0) =>
              /\ \A u \in Threads \ {t} : ~InCrit(u)
              /\ CurMap = snap
              /\ mref[t] = cm

\* C2 witness: GetValidOrDelete has removed an invalid entry while the other
\* goroutine waits for the lock
C2_Witness ==
    \E t \in Threads :
        /\ Completes(t, "GetValidOrDelete")
        /\ RMGet(snap, key[t]).ok
        /\ ~Valid(f, key[t], snap.kv[key[t]])
        /\ \E u \in Threads \ {t} : pc[u] = "lock"

\* C3: GetOrCreate invokes the factory exactly once when the key is absent or
\* present with a value the predicate rejects, and returns the factory's value;
\* when the key is present and valid it invokes the factory zero times, returns
\* the stored value and leaves the cache unchanged.
C3_GetOrCreateFactoryCount ==
    \A t \in Threads :
        Completes(t, "GetOrCreate") =>
            LET g == RMGet(snap, key[t])
            IN  IF g.ok /\ Valid(f, key[t], g.value)
                THEN called[t] = 0 /\ value[t] = g.value /\ CurMap = snap
                ELSE called[t] = 1 /\ value[t] = val[t]

\* C3 witness: GetOrCreate completes on a key that was present but invalid
C3_Witness ==
    \E t \in Threads :
        /\ Completes(t, "GetOrCreate")
        /\ RMGet(snap, key[t]).ok
        /\ ~Valid(f, key[t], snap.kv[key[t]])
        /\ snap.kv[key[t]] # val[t]

\* C4 as stated: whenever GetOrCreate completes, the value it returns is the
\* value resident under its key, for every cache state, key and factory.
C4_ReturnedValueResident ==
    \A t \in Threads :
        Completes(t, "GetOrCreate") =>
            RMGet(CurMap, key[t]) = [value |-> value[t], ok |-> TRUE]

\* C4 amended: whenever GetOrCreate completes, the value it returns is the value
\* resident under its key, provided the key was present when the operation
\* began or the returned value passes the validity predicate.  (A value created
\* for an absent key that fails the predicate can be removed by the eviction
\* attempts of its own insertion.)
C4_ReturnedValueResidentIfValid ==
    \A t \in Threads :
        (/\ Completes(t, "GetOrCreate")
         /\ (key[t] \in DOMAIN snap.kv \/ Valid(f, key[t], value[t]))) =>
            RMGet(CurMap, key[t]) = [value |-> value[t], ok |-> TRUE]

\* C4 witness: GetOrCreate has created a value for an absent key, next to
\* an invalid entry that the eviction attempts removed
C4_Witness ==
    \E t \in Threads :
        /\ Completes(t, "GetOrCreate")
        /\ key[t] \notin DOMAIN snap.kv
        /\ called[t] = 1
        /\ HasInvalid(snap, f)
        /\ RMLen(CurMap) = RMLen(snap)

\* C5: Flush replaces the backing map by an empty one.  When Flush completes
\* the map is empty (Len 0); at every moment every entry of the backing map
\* was stored after the last Flush, so no operation retrieves an entry written
\* before it; and the map a callback works on is the backing map, never one
\* that a Flush replaced, also for an operation that waited during the Flush.
C5_FlushSeparates ==
    /\ \A t \in Threads : Completes(t, "Flush") => (CurMap = Make /\ RMLen(CurMap) = 0)
    /\ \A k \in DOMAIN CurMap.kv : <<k, CurMap.kv[k]>> \in written
    /\ \A t \in Threads : mref[t] # NoRef => mref[t] = cm
    /\ DOMAIN heap = {cm}

\* C5 witness: Flush has emptied a populated map while the other goroutine
\* waits for the lock
C5_Witness ==
    \E t \in Threads :
        /\ Completes(t, "Flush")
        /\ RMLen(snap) > 0
        /\ \E u \in Threads \ {t} : pc[u] = "lock" /\ op[u] \in {"Get", "Len", "Set"}

\* C6: the operations exclude each other and are linearizable in the order of
\* lock acquisition: at most one goroutine is between Lock and Unlock, and
\* when an operation completes, the map and its results are what the
\* operation, run alone on the map found at its lock acquisition, can produce.
C6_Linearizable ==
    /\ Cardinality({t \in Threads : InCrit(t)}) <= 1
    /\ \A t \in Threads :
        (pc[t] = "unlock" /\ depth[t] = 0) =>
            [m |-> CurMap, value |-> value[t], ok |-> ok[t], called |-> called[t]]
                \in AtomicOutcomes(op[t], key[t], val[t], snap, f, n)

\* C6 witness: an insertion with eviction completes after changing the map,
\* while the other goroutine waits for the lock with a writing operation
C6_Witness ==
    \E t \in Threads :
        /\ Completes(t, "Set")
        /\ i[t] >= 2
        /\ RMLen(CurMap) = RMLen(snap)
        /\ DOMAIN CurMap.kv # DOMAIN snap.kv
        /\ \E u \in Threads \ {t} : pc[u] = "lock" /\ op[u] \in {"Set", "Flush", "DoSet"}

\* C7: with a predicate that accepts every entry, when the goroutines of
\* TestConcurrent, each setting its own key on the initially empty cache,
\* have all ended, Len is the number of keys and every key is found with the
\* value assigned to it.
C7_ConcurrentSets ==
    (client = "TestConcurrent" /\ \A t \in Threads : pc[t] = "done") =>
        /\ RMLen(CurMap) = Cardinality({OwnKey(t) : t \in Threads})
        /\ \A t \in Threads :
              RMGet(CurMap, OwnKey(t)) = [value |-> OwnVal(t), ok |-> TRUE]

\* C7 witness: all goroutines of TestConcurrent have ended
C7_Witness ==
    /\ client = "TestConcurrent"
    /\ \A t \in Threads : pc[t] = "done"
    /\ calls = Cardinality(Threads)

\* goroutines whose started operation has not yet stored its result
Unfinished == {t \in Threads : pc[t] \in {"lock", "incr_get", "incr_set"}}

\* C8: a callback passed to Do runs as one unit.  With goroutines that all run
\* the increment callback on one key, the key's value is at every moment the
\* number of callbacks that have stored their result: no update is lost, and
\* N calls leave the value N higher.  A callback's direct m.Set, when
\* it completes, has changed that one entry and run no eviction.
C8_DoAtomic ==
    /\ client = "ExampleDo" =>
          RMGet(CurMap, IncrKey).value = calls - Cardinality(Unfinished)
    /\ \A t \in Threads :
          /\ Completes(t, "DoIncr") =>
                /\ CurMap = RMSet(snap, key[t], RMGet(snap, key[t]).value + 1)
                /\ i[t] = 0 /\ evals[t] = 0
          /\ Completes(t, "DoSet") =>
                /\ CurMap = RMSet(snap, key[t], val[t])
                /\ i[t] = 0 /\ evals[t] = 0

\* C8 witness: all increments of a run have completed, some of them having
\* waited for the lock, with the value raised by their number
C8_Witness ==
    /\ client = "ExampleDo"
    /\ calls = MaxCalls
    /\ \A t \in Threads : pc[t] = "idle"
    /\ RMGet(CurMap, IncrKey).value = MaxCalls

\* C9: Do releases the lock when its callback finishes, also when the callback
\* panics: whenever no goroutine is between Lock and Unlock the mutex is
\* unlocked, so the next operation can acquire it.
C9_LockReleasedOnExit ==
    (\A t \in Threads : ~InCrit(t)) => ~mux

\* C9 witness: after a callback has panicked, another operation has acquired
\* the lock and run to its end
C9_Witness ==
    /\ panicked
    /\ \E u \in Threads :
          /\ pc[u] = "unlock"
          /\ ~panicking[u]
          /\ op[u] \in {"Set", "Get"}

\* C10: a locking cache operation called from inside a Do callback never gets
\* past the lock: from the call on, the calling goroutine stays at Lock, the
\* mutex stays locked, and the cache's state does not change.
C10_NestedCallBlocks ==
    [][\A t \in Threads :
          depth[t] = 1 =>
              /\ pc[t] = "lock"
              /\ depth'[t] = 1 /\ pc'[t] = "lock"
              /\ mux /\ mux'
              /\ UNCHANGED <<heap, cm, mref, value, ok>>]_vars

\* C10 witness: a goroutine is inside a nested call while the other one waits
\* on a populated cache
C10_Witness ==
    \E t \in Threads :
        /\ depth[t] = 1
        /\ RMLen(CurMap) > 0
        /\ \E u \in Threads \ {t} : pc[u] = "lock"

\* C15: Get is a raw fetch.  When Get(k) completes it reports exactly what is
\* stored under k in the map it found: the stored value with found = true also
\* when the validity predicate rejects that value, the zero value with
\* found = false when k is absent; it has evaluated the predicate zero times,
\* made no draw and called no factory, and the map is the map it found, no
\* entry removed or changed.
C15_GetRawFetch ==
    \A t \in Threads :
        Completes(t, "Get") =>
            /\ ok[t] = (key[t] \in DOMAIN snap.kv)
            /\ value[t] = IF key[t] \in DOMAIN snap.kv THEN snap.kv[key[t]] ELSE ZeroV
            /\ evals[t] = 0 /\ i[t] = 0 /\ called[t] = 0
            /\ CurMap = snap

\* C15 witness: Get completes on a key whose stored value the predicate rejects
C15_Witness ==
    \E t \in Threads :
        /\ Completes(t, "Get")
        /\ key[t] \in DOMAIN snap.kv
        /\ ~Valid(f, key[t], snap.kv[key[t]])
        /\ ok[t] /\ value[t] = snap.kv[key[t]]

\* goroutine t is in, or has completed, an insertion of a key that was absent
TrueInsertion(t) ==
    /\ op[t] \in {"Set", "GetOrCreate"}
    /\ depth[t] = 0
    /\ key[t] \notin DOMAIN snap.kv

\* C19: the sampling eviction pass.  The pass runs only after the insertion of
\* a key that was absent and makes at most n draws.  Each step of the pass,
\* with the map non-empty, makes one draw and evaluates the predicate once: a
\* drawn entry that fails the predicate is deleted in that step, before the
\* next draw, and nothing else changes; a drawn entry that passes leaves the
\* map unchanged.  A step that finds the map empty ends the pass without a
\* draw.  So the pass ends after n draws or on the empty map, the insertion
\* removes at most n entries, and Len afterwards lies between
\* max(0, oldLen + 1 - n) and oldLen + 1.
C19_EvictionPass ==
    /\ [](\A t \in Threads :
            /\ pc[t] = "evict" =>
                  /\ TrueInsertion(t)
                  /\ i[t] < n
                  /\ RMLen(CurMap) >= RMLen(snap) + 1 - i[t]
                  /\ RMLen(CurMap) <= RMLen(snap) + 1
            /\ (pc[t] = "unlock" /\ TrueInsertion(t)) =>
                  /\ i[t] <= n
                  /\ i[t] = n \/ RMLen(CurMap) = 0
                  /\ (RMLen(snap) + 1) - RMLen(CurMap) <= n
                  /\ RMLen(CurMap) >= Max(0, RMLen(snap) + 1 - n)
                  /\ RMLen(CurMap) <= RMLen(snap) + 1)
    /\ [][\A t \in Threads :
            (pc[t] = "evict" /\ (pc'[t] # "evict" \/ i'[t] # i[t])) =>
                IF RMLen(CurMap) = 0
                THEN /\ pc'[t] = "unlock"
                     /\ i'[t] = i[t] /\ evals'[t] = evals[t]
                     /\ CurMap' = CurMap
                ELSE /\ i'[t] = i[t] + 1 /\ evals'[t] = evals[t] + 1
                     /\ \E k \in DOMAIN CurMap.kv :
                           IF Valid(f, k, CurMap.kv[k])
                           THEN CurMap' = CurMap
                           ELSE /\ DOMAIN CurMap'.kv = DOMAIN CurMap.kv \ {k}
                                /\ \A x \in DOMAIN CurMap'.kv :
                                      CurMap'.kv[x] = CurMap.kv[x]]_vars

\* C19 witness: an insertion into a map of two entries has completed after n = 2
\* draws that both deleted an entry, leaving Len at oldLen + 1 - n
C19_Witness ==
    \E t \in Threads :
        /\ pc[t] = "unlock" /\ TrueInsertion(t)
        /\ n = 2 /\ i[t] = 2
        /\ RMLen(snap) = 2
        /\ RMLen(CurMap) = 1
        /\ \E k \in DOMAIN CurMap.kv : Valid(f, k, CurMap.kv[k])

\* the map after one eviction attempt on rm that draws slot r
EvictStep(rm, fn, r) ==
    IF Valid(fn, RMGetRandom(rm, r).key, RMGetRandom(rm, r).value)
    THEN rm ELSE RMDelete(rm, RMGetRandom(rm, r).key)

\* C20: GetOrCreate stores through the insertion path of Set.  For both
\* operations alike: the store starts on the map found at lock acquisition
\* with the key and the value in hand (Set's argument, the factory's value),
\* and the store itself can happen; in the eviction pass every draw that Set
\* could make next can happen, with the map it leaves; and at completion on a
\* key that was absent the map is one that SetLocked, run alone on the map
\* found, can leave, after at least one draw.  So from one state the maps
\* GetOrCreate(k, factory returning v) can leave are those Set(k, v) can
\* leave.  When k is present but invalid, GetOrCreate completes having
\* replaced k's value in place: no draw, Len and every other entry unchanged.
C20_GetOrCreateInsertsAsSet ==
    \A t \in Threads :
        (op[t] \in {"Set", "GetOrCreate"} /\ depth[t] = 0) =>
            /\ pc[t] = "set" =>
                  /\ CurMap = snap /\ mref[t] = cm
                  /\ SetArg(t) = val[t]
                  /\ ENABLED (SetLockedSet(t) /\ heap'[cm'] = RMSet(snap, key[t], val[t]))
            /\ (pc[t] = "evict" /\ RMLen(CurMap) > 0) =>
                  \A r \in RandIntN(RMLen(CurMap)) :
                      ENABLED (SetLockedEvict(t) /\ heap'[cm'] = EvictStep(CurMap, f, r))
            /\ (pc[t] = "unlock" /\ key[t] \notin DOMAIN snap.kv) =>
                  /\ CurMap \in SetLockedOutcomes(snap, f, n, key[t], val[t])
                  /\ i[t] >= 1 /\ evals[t] = i[t]
            /\ (/\ pc[t] = "unlock" /\ op[t] = "GetOrCreate"
                /\ key[t] \in DOMAIN snap.kv /\ ~Valid(f, key[t], snap.kv[key[t]])) =>
                  /\ CurMap = [snap EXCEPT !.kv[key[t]] = val[t]]
                  /\ RMLen(CurMap) = RMLen(snap)
                  /\ i[t] = 0 /\ evals[t] = 1

\* C20 witness: GetOrCreate has completed on an absent key next to an invalid
\* entry, which its eviction pass removed
C20_Witness ==
    \E t \in Threads :
        /\ Completes(t, "GetOrCreate")
        /\ key[t] \notin DOMAIN snap.kv
        /\ \E k \in DOMAIN snap.kv : ~Valid(f, k, snap.kv[k]) /\ k \notin DOMAIN CurMap.kv
        /\ key[t] \in DOMAIN CurMap.kv

\* C16: New(n, f) uses fan-out max(n, 2).  For every argument n, also 0 and
\* negative ones, the cache's c.n is 2 if n < 2 and n otherwise; an eviction
\* pass has made fewer draws than that while it runs and ends after exactly
\* that many draws or on the empty map; and the map an insertion leaves is one
\* that SetLocked with that fan-out can leave: for n < 2 the ones a cache built
\* with n = 2 can leave.  New always yields a cache: operations complete
\* whatever n was.
C16_FanOutClamped ==
    LET fanOut == IF nArg < 2 THEN 2 ELSE nArg
    IN  /\ n = fanOut
        /\ \A t \in Threads :
              /\ pc[t] = "evict" => i[t] < fanOut
              /\ (pc[t] = "unlock" /\ TrueInsertion(t)) =>
                    /\ i[t] = fanOut \/ (RMLen(CurMap) = 0 /\ i[t] < fanOut)
                    /\ CurMap \in SetLockedOutcomes(snap, f, fanOut, key[t], val[t])
                    /\ nArg < 2 => CurMap \in SetLockedOutcomes(snap, f, 2, key[t], val[t])

\* C16 witness: on a cache built with n = 0 or a negative n, an insertion has
\* completed after two draws on a populated map
C16_Witness ==
    \E t \in Threads :
        /\ nArg <= 0
        /\ pc[t] = "unlock" /\ TrueInsertion(t)
        /\ i[t] = 2
        /\ RMLen(snap) > 0
        /\ RMLen(CurMap) <= RMLen(snap)

Expected(k) ==
    LET js == {j \in 1 .. Len(log) : log[j].key = k}
        last == CHOOSE j \in js : \A x \in js : x <= j
    IN  IF js # {}
        THEN IF log[last].op = "Set"
             THEN [value |-> log[last].val, ok |-> TRUE]
             ELSE [value |-> ZeroV, ok |-> FALSE]
        ELSE IF \E p \in written : p[1] = k
             THEN [value |-> (CHOOSE p \in written : p[1] = k)[2], ok |-> TRUE]
             ELSE [value |-> ZeroV, ok |-> FALSE]

\* C12: lookup correctness of the sampling map.  After any sequence of Set and
\* Delete calls, for every key k the lookup of k yields (v, true) with v the
\* value of the most recent Set(k, _) if k was set and not deleted since, and
\* not found if k was never set or was deleted after its last Set; a Get call
\* returns exactly that and changes nothing; and a Set of a present key leaves
\* Len unchanged.
C12_LookupCorrect ==
    /\ \A k \in RMKeys :
          /\ (k \in DOMAIN CurMap.kv) = Expected(k).ok
          /\ Expected(k).ok => CurMap.kv[k] = Expected(k).value
    /\ op[Tester] = "Get" =>
          /\ ok[Tester] = Expected(key[Tester]).ok
          /\ value[Tester] = Expected(key[Tester]).value
          /\ CurMap = snap
    /\ (op[Tester] = "Set" /\ key[Tester] \in DOMAIN snap.kv) =>
          RMLen(CurMap) = RMLen(snap)

\* C12 witness: a key was set, deleted and set again with another value, and a
\* Get of it returns the last value
C12_Witness ==
    /\ Len(log) = 3
    /\ log[1].op = "Set" /\ log[2].op = "Delete" /\ log[3].op = "Set"
    /\ log[1].key = log[2].key /\ log[2].key = log[3].key
    /\ log[1].val # log[3].val
    /\ op[Tester] = "Get" /\ key[Tester] = log[3].key
    /\ ok[Tester] /\ value[Tester] = log[3].val

\* C13: Delete correctness of the sampling map.  After Delete(k) with k absent
\* the map is as before: same Len, same contents.  After Delete(k) with k
\* present Len is one less, k is not found, and every other key that was
\* present is found with the value it had; this holds whether k sat in the
\* last slot or in another one.
C13_DeleteFrame ==
    op[Tester] = "Delete" =>
        LET k == key[Tester]
        IN  IF k \notin DOMAIN snap.kv
            THEN /\ CurMap = snap
                 /\ RMLen(CurMap) = RMLen(snap)
            ELSE /\ RMLen(CurMap) = RMLen(snap) - 1
                 /\ ~RMGet(CurMap, k).ok
                 /\ k \notin DOMAIN CurMap.kv
                 /\ \A x \in DOMAIN snap.kv \ {k} :
                       RMGet(CurMap, x) = [value |-> snap.kv[x], ok |-> TRUE]
                 /\ DOMAIN CurMap.kv = DOMAIN snap.kv \ {k}

\* C13 witness: Delete has removed the key of the first slot of a map of three
\* entries, one of them set to another value before
C13_Witness ==
    /\ op[Tester] = "Delete"
    /\ RMLen(snap) = 3
    /\ snap.ki[key[Tester]] = 0
    /\ \E x \in DOMAIN snap.kv : snap.kv[x] = -1
    /\ RMLen(CurMap) = 2

\* C14: GetRandom reports found = false exactly when the map is empty.  On a
\* non-empty map, made or wrapped, after any Set and Delete calls, it returns
\* an entry that is present: its key is in the map with the returned value,
\* which is the value the calls so far give that key (no deleted key, no stale
\* value); it changes nothing; and every present entry is one it can return.
C14_GetRandomPresent ==
    /\ op[Tester] = "GetRandom" =>
          /\ CurMap = snap
          /\ ok[Tester] = (RMLen(CurMap) # 0)
          /\ ok[Tester] =>
                /\ key[Tester] \in DOMAIN CurMap.kv
                /\ value[Tester] = CurMap.kv[key[Tester]]
                /\ Expected(key[Tester]) = [value |-> value[Tester], ok |-> TRUE]
    /\ \A k \in DOMAIN CurMap.kv :
          ENABLED (/\ RandMapGetRandom
                   /\ ok'[Tester] /\ key'[Tester] = k /\ value'[Tester] = CurMap.kv[k])
    /\ RMLen(CurMap) = 0 => ENABLED (RandMapGetRandom /\ ~ok'[Tester])

\* C14 witness: after a Set with a new value and a Delete that left two
\* entries, GetRandom has drawn slot 0 and returned the entry that was set
C14_Witness ==
    /\ op[Tester] = "GetRandom"
    /\ Len(log) >= 2
    /\ log[Len(log)].op = "Delete"
    /\ RMLen(CurMap) = 2
    /\ ok[Tester] /\ i[Tester] = 0 /\ value[Tester] = -1

C26_GetValidOrDeleteFrame ==
    \A t \in Threads :
        /\ Completes(t, "GetValidOrDelete") =>
              LET k == key[t]
                  found == k \in DOMAIN snap.kv
              IN  /\ i[t] = 0 /\ called[t] = 0
                  /\ evals[t] = IF found THEN 1 ELSE 0
                  /\ DOMAIN CurMap.kv \ {k} = DOMAIN snap.kv \ {k}
                  /\ \A x \in DOMAIN snap.kv \ {k} : CurMap.kv[x] = snap.kv[x]
                  /\ (~found \/ Valid(f, k, snap.kv[k])) => CurMap = snap
        /\ Completes(t, "Len") =>
              /\ CurMap = snap
              /\ value[t] = Cardinality(DOMAIN snap.kv)
              /\ i[t] = 0 /\ evals[t] = 0 /\ called[t] = 0

\* C26 witness: GetValidOrDelete has removed the invalid key of slot 0 next to
\* another invalid entry, which stayed
C26_Witness ==
    \E t \in Threads :
        /\ Completes(t, "GetValidOrDelete")
        /\ RMLen(snap) = 2
        /\ key[t] \in DOMAIN snap.kv
        /\ snap.ki[key[t]] = 0
        /\ \A x \in DOMAIN snap.kv : ~Valid(f, x, snap.kv[x])
        /\ RMLen(CurMap) = 1

\* C23: valid entries are never evicted.  In every step that takes a key out
\* of the cache's map, the step is Flush's or the entry failed the validity
\* predicate at that moment; a step that changes the value under a key is a
\* store to that key by the goroutine holding the lock.  When Set,
\* GetOrCreate or GetValidOrDelete completes, every entry it found or stored
\* that is missing is one the predicate rejects; and after Set(k, v) with v
\* valid, the lookup of k yields (v, true), which is what the next Get
\* returns.
C23_ValidNeverEvicted ==
    /\ [][/\ \A x \in DOMAIN CurMap.kv \ DOMAIN CurMap'.kv :
                \/ \E t \in Threads : pc[t] = "flush" /\ pc'[t] = "unlock"
                \/ ~Valid(f, x, CurMap.kv[x])
          /\ \A x \in DOMAIN CurMap.kv \cap DOMAIN CurMap'.kv :
                CurMap'.kv[x] # CurMap.kv[x] =>
                    \E t \in Threads : /\ pc[t] \in {"set", "do_set", "incr_set"}
                                       /\ pc'[t] # pc[t]
                                       /\ key[t] = x]_vars
    /\ [](\A t \in Threads :
            /\ (/\ pc[t] = "unlock" /\ depth[t] = 0
                /\ op[t] \in {"Set", "GetOrCreate", "GetValidOrDelete"}) =>
                  /\ \A x \in DOMAIN snap.kv \ DOMAIN CurMap.kv :
                        x = key[t] \/ ~Valid(f, x, snap.kv[x])
                  /\ key[t] \notin DOMAIN CurMap.kv =>
                        \/ key[t] \in DOMAIN snap.kv /\ ~Valid(f, key[t], snap.kv[key[t]])
                        \/ op[t] # "GetValidOrDelete" /\ ~Valid(f, key[t], val[t])
                        \/ op[t] = "GetValidOrDelete" /\ key[t] \notin DOMAIN snap.kv
            /\ (Completes(t, "Set") /\ Valid(f, key[t], val[t])) =>
                  RMGet(CurMap, key[t]) = [value |-> val[t], ok |-> TRUE])

\* C23 witness: a Set of a valid value has completed after its eviction pass
\* made two draws and removed an invalid entry; the new entry is resident
C23_Witness ==
    \E t \in Threads :
        /\ Completes(t, "Set")
        /\ f = "positive" /\ Valid(f, key[t], val[t])
        /\ i[t] >= 2
        /\ \E x \in DOMAIN snap.kv \ DOMAIN CurMap.kv : ~Valid(f, x, snap.kv[x])
        /\ DOMAIN CurMap.kv = {key[t]}

\* C25: concurrent GetOrCreate calls for one absent key, with a predicate
\* that accepts the values the factories create and no other operation
\* running: while a goroutine is creating, no other goroutine has got past
\* the lock; at most one factory is ever invoked; and when all calls have
\* returned, exactly one factory was invoked, by the goroutine that got the
\* lock first, and every call has returned the value it created, which is
\* the value resident under the key.
C25_OneFactory ==
    (/\ client = "SameKey"
     /\ \A t \in Threads : op[t] = "GetOrCreate" => Valid(f, key[t], val[t])) =>
        /\ Cardinality({t \in Threads : called[t] > 0}) <= 1
        /\ \A t \in Threads : called[t] <= 1
        /\ \A t \in Threads :
              pc[t] \in {"goc_create", "set", "evict"} =>
                  \A u \in Threads \ {t} : pc[u] \in {"idle", "lock"}
        /\ (\A t \in Threads : pc[t] = "done") =>
              \E t \in Threads :
                  /\ called[t] = 1
                  /\ \A u \in Threads \ {t} : called[u] = 0
                  /\ \A u \in Threads : value[u] = val[t]
                  /\ RMGet(CurMap, SharedKey) = [value |-> val[t], ok |-> TRUE]

\* C25 witness: both goroutines have returned from GetOrCreate of the same
\* key with the same value, their factories making different values that the
\* predicate both accepts
C25_Witness ==
    /\ client = "SameKey"
    /\ f = "always"
    /\ \A t \in Threads : pc[t] = "done" /\ op[t] = "GetOrCreate"
    /\ \E t, u \in Threads : val[t] # val[u] /\ value[t] = value[u]

\* goroutine t takes this step, and the step belongs to a Get, a Len, or a Set
\* of a key that was present when the Set acquired the lock
QuietStep(t) ==
    /\ pc'[t] # pc[t]
    /\ depth[t] = 0 /\ depth'[t] = 0
    /\ LET o == IF pc[t] = "idle" THEN op'[t] ELSE op[t]
       IN  \/ o \in {"Get", "Len"}
           \/ /\ o = "Set"
              /\ pc[t] \in {"set", "evict", "unlock"} => key[t] \in DOMAIN snap.kv

\* C21: eviction happens only as a side effect of insertion.  Every step of a
\* Get, a Len or a Set of a present key leaves the set of keys as it is, so Len
\* does not decrease, starts no eviction pass, and leaves every entry other
\* than the one the Set stores as it was; an execution that from some point on
\* consists of such steps only never removes an entry from that point on, and
\* an invalid entry stays resident.  And every step that does remove an entry
\* is a step of an eviction pass, of GetValidOrDelete's check or of Flush: no
\* step outside an operation removes anything.
C21_NoRemovalWithoutInsertion ==
    [][/\ \A t \in Threads :
             QuietStep(t) =>
                 /\ DOMAIN CurMap'.kv = DOMAIN CurMap.kv
                 /\ RMLen(CurMap') >= RMLen(CurMap)
                 /\ pc'[t] # "evict"
                 /\ \A x \in DOMAIN CurMap.kv :
                       (x # key[t] \/ pc[t] # "set") => CurMap'.kv[x] = CurMap.kv[x]
       /\ DOMAIN CurMap.kv \ DOMAIN CurMap'.kv # {} =>
             \E t \in Threads :
                 /\ pc[t] \in {"evict", "gvod_check", "flush"}
                 /\ pc'[t] # pc[t] \/ i'[t] # i[t]]_vars

\* C21 witness: a Set of a present key has completed, the last call of the
\* run, next to an invalid entry that is still resident
C21_Witness ==
    \E t \in Threads :
        /\ Completes(t, "Set")
        /\ calls = MaxCalls
        /\ key[t] \in DOMAIN snap.kv
        /\ \E x \in DOMAIN CurMap.kv \ {key[t]} : ~Valid(f, x, CurMap.kv[x])

\* C24: progress.  Under fair scheduling, with callbacks, factories and
\* predicates that terminate and do not call back into the cache, every
\* operation a goroutine has invoked returns, so a goroutine waiting for the
\* lock gets it; the lock, once held, is released; and an eviction pass never
\* makes more than n draws.
C24_Progress ==
    /\ \A t \in Threads : (pc[t] # "idle") ~> (pc[t] = "idle")
    /\ mux ~> ~mux
    /\ [](\A t \in Threads : i[t] <= n)

\* C24 witness: a goroutine waits for the lock while the other one is in the
\* last draw of an eviction pass
C24_Witness ==
    \E t \in Threads :
        /\ pc[t] = "lock"
        /\ \E u \in Threads \ {t} : pc[u] = "evict" /\ i[u] = n - 1 /\ RMLen(CurMap) > 0

=============================================================================
